---- MODULE Spec2Model ----
(***************************************************************************)
(* Model of src/main.py: a Telegram bot that lets allow-listed operators   *)
(* restart a docker-compose stack (two-step confirm) and that scans three  *)
(* security logs in a background loop (monitor_fail2ban).                  *)
(*                                                                         *)
(* Spec      the bot: update queue, handlers, restart sequence, monitor    *)
(* SpecScan  the three log checks as pure functions of a log file          *)
(* SpecMonitor  the monitor loop on a host whose log files change          *)
(* SpecLoop     the monitor loop alone, with fair scheduling               *)
(* SpecRestart  the handlers alone, with fair scheduling of a restart      *)
(* SpecReport   the status and security reports as pure functions          *)
(***************************************************************************)
EXTENDS Integers, Sequences, FiniteSets, TLC

(***************************** bounds **************************************)
MaxQueue == 1       \* updates waiting in the application's update queue
MaxLines == 3       \* lines of a log file under scan
MaxThreshold == 2   \* largest configured threshold explored

(************************** configuration **********************************)
\* ADMIN_IDS (main.py:31-40): two allow-listed operators; Users adds one
\* identity outside the allow-list.
ADMIN_IDS == {"op1", "op2"}
Users == ADMIN_IDS \cup {"guest"}
Tasks == {1, 2}                      \* handler coroutines that can exist at once
Kinds == {"fail2ban", "ssh", "port_scan"}
WINDOW == 5                          \* timedelta(minutes=5)
Now == 10                            \* datetime.now() at scan time, minutes
ALERT_THRESHOLD == 5                 \* default of FAIL2BAN_THRESHOLD
SSH_FAILED_THRESHOLD == 10           \* default of SSH_FAILED_THRESHOLD
PORT_SCAN_THRESHOLD == 20            \* default of PORT_SCAN_THRESHOLD
None == "None"

VARIABLES
    update_queue,   \* updates fetched and not yet handled
    view,           \* the bot's message: the screen it shows and its body
    carried,        \* callback_data of every keyboard the message has carried
    pc,             \* per handler coroutine: its position
    cur,            \* per handler coroutine: the update it was given, and whether
                    \* the message showed the confirmation prompt at that time
    stop_result,    \* restart_docker_compose: outcome of docker-compose down
    start_result,   \* restart_docker_compose: outcome of docker-compose up -d
    restart_return, \* restart_docker_compose: (success, message) returned
    denied,         \* denial responses given: <<user, channel>>
    log,            \* logger.warning records written by the handlers
    check_counters, \* monitor_fail2ban: cadence counters
    mpc,            \* monitor_fail2ban: position in the loop body
    alert,          \* monitor_fail2ban: alert of the check just run
    pending,        \* monitor_fail2ban: recipients the for loop has not reached
    delivered,      \* send_message calls made for each kind's latest evaluation:
                    \* <<kind, admin, ok>>
    tick,           \* passes of the loop body started so far, modulo 2
    ran,            \* kinds whose check the current pass of the loop body has run
    refired,        \* the for loop now sending follows an evaluation of the same
                    \* kind that fired as well
    files,          \* per kind: does the log file exist, can it be read, its lines
    threshold,      \* ALERT_THRESHOLD, SSH_FAILED_THRESHOLD, PORT_SCAN_THRESHOLD
    scan,           \* SpecScan: kind under scan and the check's return value
    report          \* SpecReport: the report asked for, the outcome of each of
                    \* its sub-checks, and the lines of the text returned

botvars == <<update_queue, view, carried, pc, cur, stop_result, start_result,
             restart_return, denied, log>>
monvars == <<check_counters, mpc, alert, pending, delivered, tick, ran, refired>>
envvars == <<files, threshold>>
vars == <<botvars, monvars, envvars, scan, report>>

(***************************** access control ******************************)
is_admin_open(user_id) == TRUE

\* is_admin (main.py:54-56)
is_admin(user_id) == user_id \in ADMIN_IDS

(************************ screens and keyboards ****************************)
Screen(s, body) == [screen |-> s, body |-> body]

\* The callback_data of the buttons each screen carries.
Keyboard(s) ==
    CASE s = "welcome"   -> {"status", "security", "restart_docker", "help"}
      [] s = "status"    -> {"status", "security", "restart_docker", "main_menu"}
      [] s = "confirm"   -> {"confirm_restart", "status"}
      [] s = "result"    -> {"status", "main_menu"}
      [] s = "main_menu" -> {"security", "status", "restart_docker", "help"}
      [] s = "help"      -> {"main_menu"}
      [] s = "security"  -> {"security", "main_menu"}
      [] OTHER           -> {}

Commands == {"/start", "/help"}
InFlight == {"Stopping", "Settling", "Starting"}
Outcomes == {"ok", "nonzero", "timeout"}   \* exit 0, exit # 0, call raised

\* An update as the handlers see it; inflight records whether a restart
\* sequence was running when a confirm_restart was received.
Update(u, d) ==
    [user |-> u, data |-> d,
     inflight |-> d = "confirm_restart" /\ \E t \in Tasks : pc[t] \in InFlight]

(************************* updates arriving ********************************)
\* A user sends /start or /help.
SendCommand(u, c) ==
    /\ Len(update_queue) < MaxQueue
    /\ update_queue' = Append(update_queue, Update(u, c))
    /\ UNCHANGED <<view, carried, pc, cur, stop_result, start_result,
                   restart_return, denied, log, monvars, envvars, scan, report>>

\* A user presses a button of the bot's message. The press may have been
\* made on a keyboard the message carried before its latest edit: callback
\* queries travel while the handlers edit the message.
PressButton(u, d) ==
    /\ Len(update_queue) < MaxQueue
    /\ d \in carried
    /\ update_queue' = Append(update_queue, Update(u, d))
    /\ UNCHANGED <<view, carried, pc, cur, stop_result, start_result,
                   restart_return, denied, log, monvars, envvars, scan, report>>

(************************* update processing *******************************)
ConcurrentDispatch == \E t \in Tasks : pc[t] = "idle"

\* Application.builder().token(...).post_init(...).build() (main.py:599)
\* leaves concurrent_updates off: the next update is handled only when the
\* handler of the previous one has returned.
MayDispatch == \A t \in Tasks : pc[t] = "idle"

Dispatchable == MayDispatch /\ update_queue # <<>>
upd == Head(update_queue)

Handled == /\ update_queue' = Tail(update_queue)
           /\ UNCHANGED <<pc, cur, stop_result, start_result, restart_return,
                          monvars, envvars, scan, report>>

\* query.edit_message_text / reply_text with a keyboard: the message shows
\* screen s from now on.
Show(s, body) == /\ view' = Screen(s, body)
                 /\ carried' = carried \cup Keyboard(s)

\* start_command, also registered for /help (main.py:360-371, 602-603).
StartCommandDenied ==
    /\ Dispatchable /\ upd.data \in Commands
    /\ ~is_admin(upd.user)
    /\ denied' = denied \cup {<<upd.user, "reply">>}
    /\ log' = log \cup {<<"unauthorized", upd.user>>}
    /\ UNCHANGED <<view, carried>>
    /\ Handled

\* start_command (main.py:373-387): the welcome menu, sent as a new message.
StartCommandWelcome ==
    /\ Dispatchable /\ upd.data \in Commands
    /\ is_admin(upd.user)
    /\ view' = Screen("welcome", {})
    /\ carried' = Keyboard("welcome")
    /\ UNCHANGED <<denied, log>>
    /\ Handled

\* button_callback (main.py:390-398): the access check.
ButtonDenied ==
    /\ Dispatchable /\ upd.data \notin Commands
    /\ ~is_admin(upd.user)
    /\ denied' = denied \cup {<<upd.user, "answer">>}
    /\ UNCHANGED <<view, carried, log>>
    /\ Handled

Button(d) == /\ Dispatchable /\ upd.data = d
             /\ is_admin(upd.user)

\* 'status' (main.py:402-417) with get_server_status (main.py:62-92).
ButtonStatus ==
    /\ Button("status")
    /\ \/ Show("status", {"server ok"})
       \/ Show("status", {"status error"})
    /\ UNCHANGED <<denied, log>>
    /\ Handled

\* 'restart_docker' (main.py:419-433): the confirmation prompt.
ButtonRestartDocker ==
    /\ Button("restart_docker")
    /\ Show("confirm", {})
    /\ UNCHANGED <<denied, log>>
    /\ Handled

\* 'main_menu' (main.py:454-466).
ButtonMainMenu ==
    /\ Button("main_menu")
    /\ Show("main_menu", {})
    /\ UNCHANGED <<denied, log>>
    /\ Handled

\* 'help' (main.py:468-494).
ButtonHelp ==
    /\ Button("help")
    /\ Show("help", {})
    /\ UNCHANGED <<denied, log>>
    /\ Handled

\* 'security' (main.py:496-511) with get_security_status (main.py:311-357).
\* The branch as written does not close its first edit_message_text call and
\* then repeats the help branch's call with a name this branch never binds:
\* either the report is shown with the keyboard built at lines 499-503, or
\* the report is shown bare and the handler ends in an error.
ButtonSecurity ==
    /\ Button("security")
    /\ \/ Show("security", {"security report"})
       \/ Show("security bare", {"security report"})
    /\ UNCHANGED <<denied, log>>
    /\ Handled

(**************************** restart sequence *****************************)
restart_return_value_start_only(stop, start) ==
    IF start = "ok" THEN [success |-> TRUE, message |-> {"reloaded"}]
    ELSE [success |-> FALSE, message |-> {"stop diagnostic", "start diagnostic"}]

\* What restart_docker_compose returns (main.py:125-131). A call that raised
\* ("timeout") left the try block at once: the except clause reports that
\* exception alone.
restart_return_value(stop, start) ==
    IF stop = "timeout" THEN [success |-> FALSE, message |-> {"stop diagnostic"}]
    ELSE IF start = "timeout" THEN [success |-> FALSE, message |-> {"start diagnostic"}]
    ELSE IF stop = "ok" /\ start = "ok"
         THEN [success |-> TRUE,  message |-> {"reloaded"}]
         ELSE [success |-> FALSE, message |-> {"stop diagnostic", "start diagnostic"}]

Terminal_raises(r) == IF r.success THEN "Completed" ELSE "idle"

\* restart_docker_compose always returns a pair (main.py:125-131); the
\* handler goes on with it.
Terminal(r) == IF r.success THEN "Completed" ELSE "Failed"

NoUpdate == [user |-> None, data |-> None, inflight |-> FALSE, prompted |-> FALSE]
NoReturn == [success |-> FALSE, message |-> {}]

RestartUnchanged == UNCHANGED <<update_queue, denied, log, monvars, envvars, scan, report>>

\* The handler coroutine the update is given to.
FreeTask == CHOOSE t \in Tasks : pc[t] = "idle" /\ \A x \in Tasks : pc[x] = "idle" => t <= x

\* 'confirm_restart' (main.py:435-438): show the progress text, then call
\* restart_docker_compose.
ButtonConfirmRestart ==
    /\ Button("confirm_restart")
    /\ Show("progress", {})
    /\ pc' = [pc EXCEPT ![FreeTask] = "Stopping"]
    /\ cur' = [cur EXCEPT ![FreeTask] =
                  [user |-> upd.user, data |-> upd.data, inflight |-> upd.inflight,
                   prompted |-> view.screen = "confirm"]]
    /\ update_queue' = Tail(update_queue)
    /\ UNCHANGED <<stop_result, start_result, restart_return, denied, log,
                   monvars, envvars, scan, report>>

\* docker-compose down, timeout=30 (main.py:100-109).
Stop(t) ==
    /\ pc[t] = "Stopping"
    /\ \E o \in Outcomes :
         /\ stop_result' = [stop_result EXCEPT ![t] = o]
         /\ IF o = "timeout"
            THEN /\ restart_return' = [restart_return EXCEPT ![t] =
                                          restart_return_value(o, "none")]
                 /\ pc' = [pc EXCEPT ![t] = Terminal(restart_return'[t])]
            ELSE /\ pc' = [pc EXCEPT ![t] = "Settling"]
                 /\ UNCHANGED restart_return
    /\ UNCHANGED <<view, carried, cur, start_result>>
    /\ RestartUnchanged

\* await asyncio.sleep(5) (main.py:111-112).
Settle(t) ==
    /\ pc[t] = "Settling"
    /\ pc' = [pc EXCEPT ![t] = "Starting"]
    /\ UNCHANGED <<view, carried, cur, stop_result, start_result, restart_return>>
    /\ RestartUnchanged

\* docker-compose up -d, timeout=60, and the return (main.py:114-131).
Start(t) ==
    /\ pc[t] = "Starting"
    /\ \E o \in Outcomes :
         /\ start_result' = [start_result EXCEPT ![t] = o]
         /\ restart_return' = [restart_return EXCEPT ![t] =
                                  restart_return_value(stop_result[t], o)]
    /\ pc' = [pc EXCEPT ![t] = Terminal(restart_return'[t])]
    /\ UNCHANGED <<view, carried, cur, stop_result>>
    /\ RestartUnchanged

\* Back in button_callback (main.py:440-452): the result replaces the
\* progress text and the handler returns.
Report(t) ==
    /\ pc[t] \in {"Completed", "Failed"}
    /\ Show("result", restart_return[t].message)
    /\ pc' = [pc EXCEPT ![t] = "idle"]
    /\ cur' = [cur EXCEPT ![t] = NoUpdate]
    /\ stop_result' = [stop_result EXCEPT ![t] = "none"]
    /\ start_result' = [start_result EXCEPT ![t] = "none"]
    /\ restart_return' = [restart_return EXCEPT ![t] = NoReturn]
    /\ UNCHANGED <<update_queue, denied, log, monvars, envvars, scan, report>>

(******************************* log lines *********************************)
\* A log line is the sequence of its whitespace-separated tokens
\* (line.split()); a marker of two words is kept as one token. Clock tokens
\* read as minutes of the current hour.
Clock == [x \in {"12:04:00", "12:05:00", "12:10:00"} |->
            CASE x = "12:04:00" -> 4 [] x = "12:05:00" -> 5 [] OTHER -> 10]
Today == "2026-02-03"

\* datetime.strptime(f"{parts[0]} {parts[1]}", '%Y-%m-%d %H:%M:%S'): the set
\* holding the parsed time, empty for the ValueError of a string the format
\* does not match.
strptime(date, time) ==
    IF date = Today /\ time \in DOMAIN Clock THEN {Clock[time]} ELSE {}

\* marker in line: the tokens that contain the marker as a substring.
Containing(marker) ==
    CASE marker = "Ban"             -> {"Ban", "Unban"}
      [] marker = "Unban"           -> {"Unban"}
      [] marker = "Failed password" -> {"Failed password"}
      [] marker = "Invalid user"    -> {"Invalid user"}
      [] marker = "UFW"             -> {"[UFW BLOCK]", "[UFW ALLOW]"}
      [] marker = "kernel"          -> {"kernel:"}
      [] marker = "DROP"            -> {"DROP"}
      [] marker = "SRC="            -> {"SRC=1.1.1.1", "SRC=2.2.2.2", "SRC="}
      [] OTHER                      -> {}

In(marker, line) == \E i \in DOMAIN line : line[i] \in Containing(marker)

\* The lines the scans are tried on, per kind of log.
Fail2banLines ==
    { <<Today, "12:10:00", "Ban", "1.1.1.1">>,
      <<Today, "12:05:00", "Unban", "1.1.1.1">>,
      <<Today, "12:04:00", "Ban", "2.2.2.2">>,
      <<Today, "12:10:00,123", "Ban", "1.1.1.1">>,
      <<Today, "12:10:00", "Found", "1.1.1.1">>,
      <<"Ban">> }
AuthLines ==
    { <<"12:10:00", "Failed password", "from", "1.1.1.1">>,
      <<"12:10:00", "Invalid user", "from", "2.2.2.2">>,
      <<"12:04:00", "Failed password", "from", "1.1.1.1">>,
      <<"12:10:00", "Failed password">>,
      <<"12:10:00", "Invalid user", "from">>,
      <<"12:10:00", "Accepted password", "from", "1.1.1.1">> }
SyslogLines ==
    { <<"12:10:00", "kernel:", "[UFW BLOCK]", "SRC=1.1.1.1">>,
      <<"12:10:00", "kernel:", "DROP", "SRC=2.2.2.2">>,
      <<"12:04:00", "kernel:", "[UFW BLOCK]", "SRC=1.1.1.1">>,
      <<"12:10:00", "kernel:", "[UFW BLOCK]">>,
      <<"12:10:00", "kernel:", "DROP", "SRC=">>,
      <<"12:10:00", "kernel:", "[UFW ALLOW]", "SRC=2.2.2.2">>,
      <<"12:10:00", "kernel:", "eth0">>,
      <<"12:10:00", "sshd:", "DROP", "SRC=1.1.1.1">> }
LinesOf(k) == CASE k = "fail2ban" -> Fail2banLines
                [] k = "ssh"      -> AuthLines
                [] OTHER          -> SyslogLines

(******************************* the checks ********************************)
TOP_N == 5       \* sorted(...)[:5]
RECENT == 10     \* ban_events[-10:]

\* What a check returns: None, or the alert text, kept as the data it is
\* rendered from: the count and the threshold, the top IPs, the sample of
\* events listed. events is the list the count is the length of.
NoAlert == [fired |-> FALSE, kind |-> None, count |-> 0, threshold |-> 0,
            top |-> <<>>, sample |-> <<>>, events |-> <<>>]
Alert(k, events, thr, top, sample) ==
    [fired |-> TRUE, kind |-> k, count |-> Len(events), threshold |-> thr,
     top |-> top, sample |-> sample, events |-> events]

five_min_ago == Now - WINDOW

\* ips: the dict of per-IP counts, as the sequence of its items in insertion
\* order.
Bump(ips, ip) ==
    IF \E i \in DOMAIN ips : ips[i][1] = ip
    THEN [i \in DOMAIN ips |-> IF ips[i][1] = ip THEN <<ip, ips[i][2] + 1>> ELSE ips[i]]
    ELSE Append(ips, <<ip, 1>>)

RECURSIVE Tally(_, _)
Tally(found, ips) ==
    IF found = <<>> THEN ips ELSE Tally(Tail(found), Bump(ips, Head(found)))

\* sorted(ips.items(), key=lambda x: x[1], reverse=True)[:5]: a stable sort,
\* items of equal count keep the order they have in the dict.
InsertByCount(s, e) ==
    LET before == {i \in DOMAIN s : \A j \in 1..i : s[j][2] >= e[2]}
        k == Cardinality(before)
    IN SubSeq(s, 1, k) \o <<e>> \o SubSeq(s, k + 1, Len(s))

RECURSIVE SortedByCount(_, _)
SortedByCount(items, acc) ==
    IF items = <<>> THEN acc
    ELSE SortedByCount(Tail(items), InsertByCount(acc, Head(items)))

top_ips(ips) ==
    LET s == SortedByCount(ips, <<>>)
    IN SubSeq(s, 1, IF Len(s) < TOP_N THEN Len(s) ELSE TOP_N)

\* s[-n:]
Last(s, n) == SubSeq(s, IF Len(s) > n THEN Len(s) - n + 1 ELSE 1, Len(s))

\* The loop body of check_fail2ban_alerts (main.py:148-160): does the line
\* add an entry to ban_events.
ban_event(line) ==
    /\ In("Ban", line) \/ In("Unban", line)
    /\ Len(line) >= 2
    /\ \E log_date \in strptime(line[1], line[2]) : log_date >= five_min_ago

fires_at_or_above(total, thr) == total >= thr

\* len(events) > THRESHOLD (main.py:162, 211, 261)
fires(total, thr) == total > thr

\* Each check returns None for a file that does not exist and, through its
\* except Exception clause, for a file that open() or the read fails on.

\* check_fail2ban_alerts (main.py:134-179)
check_fail2ban_alerts(f, thr) ==
    IF ~f.exists \/ ~f.readable THEN NoAlert
    ELSE LET ban_events == SelectSeq(f.lines, ban_event)
         IN IF fires(Len(ban_events), thr)
            THEN Alert("fail2ban", ban_events, thr, <<>>, Last(ban_events, RECENT))
            ELSE NoAlert

\* The for loop over parts (main.py:200-207): the token after the first
\* 'from' that has a successor; empty when there is none.
from_ip(parts) ==
    LET at == {i \in DOMAIN parts : parts[i] = "from" /\ i + 1 <= Len(parts)}
    IN IF at = {} THEN {}
       ELSE {parts[(CHOOSE i \in at : \A j \in at : i <= j) + 1]}

ssh_marker(line) == In("Failed password", line) \/ In("Invalid user", line)

\* Does the line add an entry to failed_attempts (main.py:196-209).
failed_attempt(line) == ssh_marker(line) /\ from_ip(line) # {}

\* The IPs found on the counted lines, in file order; found[i] is the (empty
\* or one-element) set of IPs taken from line i.
RECURSIVE IpsOf(_)
IpsOf(found) ==
    IF found = <<>> THEN <<>>
    ELSE IF Head(found) = {} THEN IpsOf(Tail(found))
         ELSE <<CHOOSE ip \in Head(found) : TRUE>> \o IpsOf(Tail(found))

\* check_ssh_failed_login (main.py:182-230)
check_ssh_failed_login(f, thr) ==
    IF ~f.exists \/ ~f.readable THEN NoAlert
    ELSE LET failed_attempts == SelectSeq(f.lines, failed_attempt)
             ips == Tally(IpsOf([i \in DOMAIN failed_attempts |-> from_ip(failed_attempts[i])]), <<>>)
         IN IF fires(Len(failed_attempts), thr)
            THEN Alert("ssh", failed_attempts, thr, top_ips(ips), <<>>)
            ELSE NoAlert

\* line.split('SRC=')[1].split()[0] (main.py:251-257): what follows the first
\* SRC= up to the next whitespace; empty when the line has no SRC= or nothing
\* follows it (IndexError, swallowed by the bare except).
src_ip(line) ==
    LET at == {i \in DOMAIN line : line[i] \in Containing("SRC=")}
        i == CHOOSE x \in at : \A y \in at : x <= y
    IN IF at = {} THEN {}
       ELSE CASE line[i] = "SRC=1.1.1.1" -> {"1.1.1.1"}
              [] line[i] = "SRC=2.2.2.2" -> {"2.2.2.2"}
              [] OTHER -> IF i < Len(line) THEN {line[i + 1]} ELSE {}

\* 'UFW' in line or 'kernel' in line and 'DROP' in line (main.py:247)
port_event(line) == In("UFW", line) \/ (In("kernel", line) /\ In("DROP", line))

\* check_port_scanning (main.py:233-279)
check_port_scanning(f, thr) ==
    IF ~f.exists \/ ~f.readable THEN NoAlert
    ELSE LET port_events == SelectSeq(f.lines, port_event)
             ips == Tally(IpsOf([i \in DOMAIN port_events |-> src_ip(port_events[i])]), <<>>)
         IN IF fires(Len(port_events), thr)
            THEN Alert("port_scan", port_events, thr, top_ips(ips), <<>>)
            ELSE NoAlert

check(k) == CASE k = "fail2ban" -> check_fail2ban_alerts(files[k], threshold[k])
              [] k = "ssh"      -> check_ssh_failed_login(files[k], threshold[k])
              [] OTHER          -> check_port_scanning(files[k], threshold[k])

(***************************** monitor loop ********************************)
At(where, k) == [at |-> where, kind |-> k]

\* The three blocks of the loop body in source order (main.py:524-567).
Order == <<"fail2ban", "ssh", "port_scan">>
Block(k) == CHOOSE i \in DOMAIN Order : Order[i] = k

advance_own_cadence(counters) ==
    [k \in Kinds |-> CASE k = "fail2ban" -> (counters[k] + 1) % 1
                       [] k = "ssh"      -> (counters[k] + 1) % 2
                       [] OTHER          -> (counters[k] + 1) % 3]

advance_same_cadence(counters) == [k \in Kinds |-> (counters[k] + 1) % 1]

\* main.py:569-572
advance(counters) ==
    [k \in Kinds |-> IF k = "fail2ban" THEN (counters[k] + 1) % 1
                     ELSE (counters[k] + 1) % 2]

\* The loop body from block i up to its next await (main.py:523-577): a
\* block whose counter is 0 runs its check, and an alert with a non-empty
\* ADMIN_IDS stops at the first send_message; past the last block the
\* counters advance and the task sleeps CHECK_INTERVAL. a is the value the
\* variable alert holds on the way, done the kinds checked so far in the pass.
dispatches_any(r) == ADMIN_IDS # {}

dispatches_once(r) ==
    r.fired /\ ADMIN_IDS # {} /\ ~\E d \in delivered : d[1] = r.kind

\* if alert and ADMIN_IDS: (main.py:527, 542, 557)
dispatches(r) == r.fired /\ ADMIN_IDS # {}

RECURSIVE Run(_, _, _)
Run(i, a, done) ==
    IF i > Len(Order)
    THEN [mpc |-> At("sleep", None), alert |-> a, pending |-> {},
          counters |-> advance(check_counters), ran |-> done]
    ELSE IF check_counters[Order[i]] # 0 THEN Run(i + 1, a, done)
    ELSE LET r == check(Order[i])
         IN IF dispatches(r)
            THEN [mpc |-> At("send", Order[i]), alert |-> r, pending |-> ADMIN_IDS,
                  counters |-> check_counters, ran |-> done \cup {Order[i]}]
            ELSE Run(i + 1, r, done \cup {Order[i]})

\* sent: the send_message calls on record when the loop body goes on. The
\* calls of a kind are forgotten when that kind is evaluated again.
Resume(i, done, sent) ==
    \E r \in {Run(i, alert, done)} :
       /\ mpc' = r.mpc
       /\ alert' = r.alert
       /\ pending' = r.pending
       /\ check_counters' = r.counters
       /\ ran' = r.ran
       /\ delivered' = {d \in sent : d[1] \notin r.ran \ done}
       /\ refired' = (r.mpc.at = "send" /\ \E d \in sent : d[1] = r.mpc.kind)

MonitorUnchanged == UNCHANGED <<botvars, envvars, scan, report>>

\* The sleep is over (or the task has just been created): the next pass of
\* while True starts.
MonitorTick ==
    /\ mpc.at = "sleep"
    /\ Resume(1, {}, delivered)
    /\ tick' = (tick + 1) % 2
    /\ MonitorUnchanged

after_send_outer(ok) == IF ok THEN "next" ELSE "loop"
after_send_uncaught(ok) == IF ok THEN "next" ELSE "exit"

\* Where control goes after send_message returned (ok) or raised: the try
\* around the call (main.py:529-537) logs either way and the for loop takes
\* the next recipient. "loop" is the handler of the loop body (main.py:574),
\* "exit" an exception no handler catches.
after_send(ok) == "next"

\* One pass of for admin_id in ADMIN_IDS (main.py:528-537, 543-552, 558-567);
\* after the last recipient the loop body goes on with the next block.
MonitorSend(admin_id) ==
    /\ mpc.at = "send"
    /\ admin_id \in pending
    /\ \E ok \in BOOLEAN :
        LET sent == delivered \cup {<<mpc.kind, admin_id, ok>>}
        IN CASE after_send(ok) = "next" /\ pending = {admin_id} ->
                    Resume(Block(mpc.kind) + 1, ran, sent)
             [] after_send(ok) = "next" /\ pending # {admin_id} ->
                    /\ delivered' = sent
                    /\ pending' = pending \ {admin_id}
                    /\ UNCHANGED <<mpc, alert, check_counters, ran, refired>>
             [] OTHER ->
                    /\ delivered' = sent
                    /\ pending' = {}
                    /\ mpc' = At(IF after_send(ok) = "loop" THEN "sleep" ELSE "exit", None)
                    /\ refired' = FALSE
                    /\ UNCHANGED <<alert, check_counters, ran>>
    /\ UNCHANGED tick
    /\ MonitorUnchanged

(****************************** the bot ************************************)
SeqsUpTo(S, n) == UNION {[1..k -> S] : k \in 0..n}
Absent == [exists |-> FALSE, readable |-> FALSE, lines |-> <<>>]
Unreadable == [exists |-> TRUE, readable |-> FALSE, lines |-> <<>>]
File(lines) == [exists |-> TRUE, readable |-> TRUE, lines |-> lines]

InitBot ==
    /\ update_queue = <<>>
    /\ view = Screen("none", {})
    /\ carried = {}
    /\ pc = [t \in Tasks |-> "idle"]
    /\ cur = [t \in Tasks |-> NoUpdate]
    /\ stop_result = [t \in Tasks |-> "none"]
    /\ start_result = [t \in Tasks |-> "none"]
    /\ restart_return = [t \in Tasks |-> NoReturn]
    /\ denied = {}
    /\ log = {}

\* monitor_fail2ban as post_init starts it (main.py:516-520, 580-583).
InitMonitor ==
    /\ check_counters = [k \in Kinds |-> 0]
    /\ mpc = At("sleep", None)
    /\ alert = NoAlert
    /\ pending = {}
    /\ delivered = {}
    /\ tick = 0
    /\ ran = {}
    /\ refired = FALSE

NoScan == [kind |-> None, done |-> FALSE, result |-> NoAlert]
NoReport == [name |-> None, outcome |-> <<>>, done |-> FALSE, lines |-> <<>>]

\* The host the bot runs on: default thresholds, a ban log with five bans in
\* the window, no auth.log, one dropped packet in syslog. No check fires on
\* this host, so every pass of the monitor's loop body runs to its sleep
\* without awaiting a send_message.
Init ==
    /\ InitBot
    /\ InitMonitor
    /\ threshold = [k \in Kinds |-> CASE k = "fail2ban" -> ALERT_THRESHOLD
                                     [] k = "ssh"      -> SSH_FAILED_THRESHOLD
                                     [] OTHER          -> PORT_SCAN_THRESHOLD]
    /\ files = [k \in Kinds |->
                  CASE k = "fail2ban" ->
                         File([i \in 1..ALERT_THRESHOLD |-> <<Today, "12:10:00", "Ban", "1.1.1.1">>])
                    [] k = "ssh" -> Absent
                    [] OTHER -> File(<<<<"12:10:00", "kernel:", "DROP", "SRC=2.2.2.2">>>>)]
    /\ scan = NoScan
    /\ report = NoReport

NextBot ==
    \/ \E u \in Users, c \in Commands : SendCommand(u, c)
    \/ \E u \in Users, d \in carried : PressButton(u, d)
    \/ StartCommandDenied
    \/ StartCommandWelcome
    \/ ButtonDenied
    \/ ButtonStatus
    \/ ButtonRestartDocker
    \/ ButtonConfirmRestart
    \/ ButtonMainMenu
    \/ ButtonHelp
    \/ ButtonSecurity
    \/ \E t \in Tasks : Stop(t)
    \/ \E t \in Tasks : Settle(t)
    \/ \E t \in Tasks : Start(t)
    \/ \E t \in Tasks : Report(t)

Next ==
    \/ NextBot
    \/ MonitorTick

Spec == Init /\ [][Next]_vars

\* A handler that has started a restart runs on: subprocess.run returns or
\* raises within its timeout, asyncio.sleep(5) ends, and the event loop
\* resumes the coroutine. The users owe nothing; the monitor, which touches
\* nothing of the handlers, is left asleep.
SpecRestart ==
    /\ Init /\ [][NextBot]_vars
    /\ \A t \in Tasks : /\ WF_vars(Stop(t)) /\ WF_vars(Settle(t))
                        /\ WF_vars(Start(t)) /\ WF_vars(Report(t))

(************************ the checks on any log file ***********************)
InitScan ==
    /\ InitBot
    /\ InitMonitor
    /\ \E k \in Kinds, t \in 0..MaxThreshold, e \in BOOLEAN :
        \E lines \in SeqsUpTo(LinesOf(k), MaxLines) :
          /\ scan = [kind |-> k, done |-> FALSE, result |-> NoAlert]
          /\ report = NoReport
          /\ threshold = [x \in Kinds |-> t]
          /\ files = [x \in Kinds |->
                        IF x = k THEN [exists |-> e, readable |-> e, lines |-> lines]
                        ELSE Absent]

Scan(k) ==
    /\ scan.kind = k /\ ~scan.done
    /\ scan' = [scan EXCEPT !.done = TRUE, !.result = check(k)]
    /\ UNCHANGED <<botvars, monvars, envvars, report>>

ScanFail2ban == Scan("fail2ban")
ScanSsh == Scan("ssh")
ScanPort == Scan("port_scan")

NextScan == ScanFail2ban \/ ScanSsh \/ ScanPort

SpecScan == InitScan /\ [][NextScan]_vars

(********************* the monitor on a changing host **********************)
\* A line of each log that its check counts.
Typical(k) ==
    CASE k = "fail2ban" -> <<Today, "12:10:00", "Ban", "1.1.1.1">>
      [] k = "ssh"      -> <<"12:10:00", "Failed password", "from", "1.1.1.1">>
      [] OTHER          -> <<"12:10:00", "kernel:", "DROP", "SRC=2.2.2.2">>

\* The states a log file of the host is seen in: missing, unreadable, or
\* holding as many events as the threshold (no alert), or more (an alert).
HostFiles(k) ==
    {Absent, Unreadable} \cup
    {File([i \in 1..n |-> Typical(k)]) : n \in {MaxThreshold, MaxLines}}

InitHost ==
    /\ InitBot
    /\ InitMonitor
    /\ scan = NoScan
    /\ report = NoReport
    /\ threshold = [k \in Kinds |-> MaxThreshold]
    /\ files \in [Kinds -> UNION {HostFiles(k) : k \in Kinds}]
    /\ \A k \in Kinds : files[k] \in HostFiles(k)

\* The host writes, rotates, removes or creates a log file between two scans.
LogChange(k) ==
    /\ \E f \in HostFiles(k) : f # files[k] /\ files' = [files EXCEPT ![k] = f]
    /\ UNCHANGED <<botvars, monvars, threshold, scan, report>>

NextMonitor ==
    \/ MonitorTick
    \/ \E a \in ADMIN_IDS : MonitorSend(a)
    \/ \E k \in Kinds : LogChange(k)

SpecMonitor == InitHost /\ [][NextMonitor]_vars

\* The monitor alone, alerting on the first event (threshold 0), on a host
\* where each log is missing, unreadable, empty or holds one event. The event
\* loop resumes the task when its sleep is over and when a send_message call
\* has returned or raised.
LoopFiles(k) == {Absent, Unreadable, File(<<>>), File(<<Typical(k)>>)}

InitLoop ==
    /\ InitBot
    /\ InitMonitor
    /\ scan = NoScan
    /\ report = NoReport
    /\ threshold = [k \in Kinds |-> 0]
    /\ files \in [Kinds -> UNION {LoopFiles(k) : k \in Kinds}]
    /\ \A k \in Kinds : files[k] \in LoopFiles(k)

NextLoop ==
    \/ MonitorTick
    \/ \E a \in ADMIN_IDS : MonitorSend(a)

SpecLoop ==
    /\ InitLoop /\ [][NextLoop]_vars
    /\ WF_vars(MonitorTick)
    /\ WF_vars(\E a \in ADMIN_IDS : MonitorSend(a))

(******************************* the reports *******************************)
\* The text of a report is the sequence of its lines, a line the pair of the
\* sub-check it is about and what it says of it.
SecurityChecks == {"firewall", "selinux", "fail2ban", "ports"}
StatusChecks == {"compose", "loadavg"}
ReadOutcomes == {"ok", "error"}      \* open('/proc/loadavg') and the read

\* The try blocks of get_security_status (main.py:315-355): what each adds to
\* status when its command exits 0, exits non-zero, or raises.
security_lines(c, o) ==
    CASE c = "firewall" ->
           <<<<c, CASE o = "ok" -> "active" [] o = "nonzero" -> "inactive" [] OTHER -> "unknown">>>>
      [] c = "fail2ban" ->
           <<<<c, CASE o = "ok" -> "running" [] o = "nonzero" -> "stopped" [] OTHER -> "unknown">>>>
      [] OTHER ->    \* selinux, ports: no else branch for a non-zero exit
           CASE o = "ok" -> <<<<c, "value">>>>
             [] o = "nonzero" -> <<>>
             [] OTHER -> <<<<c, "unknown">>>>

\* get_security_status (main.py:311-357)
get_security_status(o) ==
    security_lines("firewall", o["firewall"]) \o security_lines("selinux", o["selinux"])
    \o security_lines("fail2ban", o["fail2ban"]) \o security_lines("ports", o["ports"])

\* get_server_status (main.py:62-92): one try block around both sub-checks.
\* A non-zero exit of docker-compose ps leaves stdout empty: 0 containers.
get_server_status(o) ==
    IF o["compose"] = "timeout" \/ o["loadavg"] # "ok"
    THEN <<<<"error", "diagnostic">>>>
    ELSE <<<<"compose", IF o["compose"] = "ok" THEN "value" ELSE "zero">>,
           <<"loadavg", "value">>, <<"time", "value">>, <<"verdict", "ok">>>>

InitReport ==
    /\ InitBot
    /\ InitMonitor
    /\ scan = NoScan
    /\ threshold = [k \in Kinds |-> 0]
    /\ files = [k \in Kinds |-> Absent]
    /\ \/ \E o \in [SecurityChecks -> Outcomes] :
             report = [name |-> "security", outcome |-> o, done |-> FALSE, lines |-> <<>>]
       \/ \E c \in Outcomes, l \in ReadOutcomes :
             report = [name |-> "status", outcome |-> [x \in StatusChecks |->
                                                         IF x = "compose" THEN c ELSE l],
                       done |-> FALSE, lines |-> <<>>]

GetSecurityStatus ==
    /\ report.name = "security" /\ ~report.done
    /\ report' = [report EXCEPT !.done = TRUE, !.lines = get_security_status(report.outcome)]
    /\ UNCHANGED <<botvars, monvars, envvars, scan>>

GetServerStatus ==
    /\ report.name = "status" /\ ~report.done
    /\ report' = [report EXCEPT !.done = TRUE, !.lines = get_server_status(report.outcome)]
    /\ UNCHANGED <<botvars, monvars, envvars, scan>>

NextReport == GetSecurityStatus \/ GetServerStatus

SpecReport == InitReport /\ [][NextReport]_vars

(******************************** claims ***********************************)
Running == {t \in Tasks : pc[t] \in InFlight}

\* C1: in every reachable state at most one restart sequence is in Stopping,
\* Settling or Starting, whatever the operators send and whenever the
\* monitor's loop runs.
C1_AtMostOneRestartInFlight == Cardinality(Running) <= 1

\* A restart is in flight while another operator's confirm_restart waits.
C1_Witness ==
    \E t \in Tasks :
        /\ pc[t] = "Settling"
        /\ update_queue # <<>>
        /\ upd.data = "confirm_restart"
        /\ upd.user \in ADMIN_IDS \ {cur[t].user}

\* C2: a confirm_restart received while a restart is in Stopping, Settling or
\* Starting is rejected: it never runs a stop/start sequence, neither at once
\* nor later.
C2_InFlightConfirmNeverRuns == \A t \in Tasks : pc[t] \in InFlight => ~cur[t].inflight

\* C3: the stop command is invoked only for a confirm_restart that finds the
\* request awaiting confirmation (the message showing the prompt); a
\* confirm_restart that arrives when nothing is pending starts no sequence.
C3_StopOnlyFromAwaitingConfirmation == \A t \in Tasks : pc[t] = "Stopping" => cur[t].prompted

\* C4: a restart that has invoked stop reaches its terminal state only after
\* start has been attempted, whatever the outcome of stop.
C4_StartAlwaysAttempted ==
    \A t \in Tasks : pc[t] \in {"Completed", "Failed"} => start_result[t] # "none"

\* C5: the terminal state is Completed iff stop and start both reported
\* success and Failed otherwise, and the step that leaves a terminal state
\* leaves the handler idle, so that the next update can be dispatched.
C5_CompletedIffBothSucceeded ==
    /\ [](\A t \in Tasks :
            /\ pc[t] = "Completed" => stop_result[t] = "ok" /\ start_result[t] = "ok"
            /\ pc[t] = "Failed" => ~(stop_result[t] = "ok" /\ start_result[t] = "ok")
            /\ pc[t] \in {"Completed", "Failed"} =>
                  restart_return[t].success = (pc[t] = "Completed"))
    /\ [][\A t \in Tasks :
            (pc[t] \in {"Completed", "Failed"} /\ pc'[t] # pc[t]) =>
                (pc'[t] = "idle" /\ MayDispatch')]_vars

\* A restart has ended Failed although stop succeeded: start exited non-zero.
C5_Witness ==
    \E t \in Tasks :
        pc[t] = "Failed" /\ stop_result[t] = "ok" /\ start_result[t] = "nonzero"

\* C6: the message of a restart that ends Failed carries the diagnostics of
\* the stop and of the start invocation.
C6_FailureCarriesBothDiagnostics ==
    \A t \in Tasks :
        pc[t] = "Failed" =>
            {"stop diagnostic", "start diagnostic"} \subseteq restart_return[t].message

\* C7: handling an update of an identity outside the allow-list gives that
\* identity a denial and changes nothing else: no screen, no restart state,
\* nothing of the monitor.
C7_OutsiderOnlyDenied ==
    [][(/\ update_queue # <<>>
        /\ upd.user \notin ADMIN_IDS
        /\ update_queue' = Tail(update_queue))
       => /\ UNCHANGED <<view, carried, pc, cur, stop_result, start_result,
                         restart_return, monvars, envvars>>
          /\ \E channel \in {"reply", "answer"} :
                denied' = denied \cup {<<upd.user, channel>>}]_vars

\* The outsider has been denied /start or /help and a button of the menu an
\* operator opened.
C7_Witness ==
    /\ view.screen # "none"
    /\ {<<"guest", "reply">>, <<"guest", "answer">>} \subseteq denied

(* What a scan should count, read off the file under scan. *)
ScanFile == files[scan.kind]
Counted(k, line) == CASE k = "fail2ban" -> ban_event(line)
                      [] k = "ssh"      -> failed_attempt(line)
                      [] OTHER          -> port_event(line)
Marked(k, line) == CASE k = "fail2ban" -> In("Ban", line) \/ In("Unban", line)
                     [] k = "ssh"      -> ssh_marker(line)
                     [] OTHER          -> port_event(line)
Total(k) ==
    IF files[k].exists
    THEN Cardinality({i \in DOMAIN files[k].lines : Counted(k, files[k].lines[i])})
    ELSE 0

\* C8: a check returns an alert iff the number of events it counted is
\* strictly greater than the threshold, and the alert reports that number
\* and the threshold.
C8_AlertIffTotalAboveThreshold ==
    scan.done =>
        /\ scan.result.fired <=> Total(scan.kind) > threshold[scan.kind]
        /\ scan.result.fired =>
              /\ scan.result.count = Total(scan.kind)
              /\ scan.result.threshold = threshold[scan.kind]

\* A scan has counted exactly one event more than a non-zero threshold.
C8_Witness ==
    /\ scan.done /\ scan.result.fired
    /\ threshold[scan.kind] > 0
    /\ scan.result.count = threshold[scan.kind] + 1

\* The minute a line is stamped with; empty when it has no readable stamp.
Stamp(k, line) ==
    IF k = "fail2ban"
    THEN (IF Len(line) >= 2 THEN strptime(line[1], line[2]) ELSE {})
    ELSE (IF line[1] \in DOMAIN Clock THEN {Clock[line[1]]} ELSE {})

\* C9: for every kind, the events an alert counts are all stamped inside the
\* window: none is older than now - 5 minutes.
C9_OnlyWindowedEventsCounted ==
    scan.done =>
        \A i \in DOMAIN scan.result.events :
            \A at \in Stamp(scan.kind, scan.result.events[i]) : at >= Now - WINDOW

HasIp(k, line) == IF k = "ssh" THEN from_ip(line) # {} ELSE In("SRC=", line)
RECURSIVE SumCounts(_)
SumCounts(items) == IF items = <<>> THEN 0 ELSE Head(items)[2] + SumCounts(Tail(items))

\* C10: for SSHAuth and FirewallDrop every marker-matching line counts 1 in
\* the total, with or without an IP, and only lines with an IP count in the
\* per-IP breakdown.
C10_LinesWithoutIpCounted ==
    (scan.done /\ scan.result.fired /\ scan.kind \in {"ssh", "port_scan"}) =>
        /\ scan.result.count =
              Cardinality({i \in DOMAIN ScanFile.lines : Marked(scan.kind, ScanFile.lines[i])})
        /\ SumCounts(scan.result.top) <=
              Cardinality({i \in DOMAIN ScanFile.lines :
                              /\ Marked(scan.kind, ScanFile.lines[i])
                              /\ HasIp(scan.kind, ScanFile.lines[i])})

(* Steps of the monitor on the changing host: the log files change in no
   other step. A pass of the loop body ends where the task goes to sleep. *)
MonitorStep == files' = files
PassEnd == MonitorStep /\ mpc'.at = "sleep"

\* C11: every pass of the loop body (tick) runs the ban-log check, and runs
\* the failed-login and the firewall-drop check exactly in the odd passes
\* (the first, the third, ...), whatever happened in the passes before.
C11_ChecksRunAtTheirCadence ==
    [][PassEnd =>
         ran' = IF tick' = 1 THEN Kinds ELSE {"fail2ban"}]_vars

\* The second of two passes has ended with only the ban-log check run, its
\* log unreadable; in the pass before, a failed-login alert could not be
\* delivered to a recipient.
C11_Witness ==
    /\ mpc.at = "sleep" /\ tick = 0 /\ ran = {"fail2ban"}
    /\ files["fail2ban"] = Unreadable
    /\ \E a \in ADMIN_IDS : <<"ssh", a, FALSE>> \in delivered

\* C12: the loop never stops, and a pass that ends has run the check of every
\* kind that was due in it, whatever failed in the pass: the check of another
\* kind, or a delivery.
C12_FailureIsolatedPerRule ==
    /\ [](mpc.at \in {"sleep", "send"})
    /\ [][PassEnd => \A k \in Kinds : check_counters[k] = 0 => k \in ran']_vars

\* A first pass has ended in which the ban log could not be read and a
\* failed-login alert could not be delivered to anyone; the firewall-drop
\* check ran after that and its alert was sent.
C12_Witness ==
    /\ mpc.at = "sleep" /\ tick = 1 /\ ran = Kinds
    /\ files["fail2ban"] = Unreadable
    /\ \A a \in ADMIN_IDS : <<"ssh", a, FALSE>> \in delivered
    /\ \E a \in ADMIN_IDS : <<"port_scan", a, TRUE>> \in delivered

(* The send_message calls on record for a kind. *)
Calls(sent, k) == {d \in sent : d[1] = k}

\* C13: each step of a for loop makes one send_message call, to a recipient
\* the loop has not called yet; the loop ends only when every recipient of
\* ADMIN_IDS has been called, whatever the calls returned; and the pass that
\* ends with it has run every kind that was due.
C13_EachRecipientOnce ==
    [][(MonitorStep /\ mpc.at = "send") =>
         LET k == mpc.kind
         IN /\ \E a \in pending, ok \in BOOLEAN :
                  /\ \A d \in Calls(delivered, k) : d[2] # a
                  /\ Calls(delivered', k) = Calls(delivered, k) \cup {<<k, a, ok>>}
                  /\ mpc' = mpc => pending' = pending \ {a}
            /\ mpc' # mpc =>
                  /\ {d[2] : d \in Calls(delivered', k)} = ADMIN_IDS
                  /\ Cardinality(Calls(delivered', k)) = Cardinality(ADMIN_IDS)
            /\ mpc'.at = "sleep" => \A x \in Kinds : check_counters[x] = 0 => x \in ran'
      ]_vars

\* A pass has ended in which the ban-log alert failed for one recipient and
\* reached the other, and the two other checks ran after it.
C13_Witness ==
    /\ mpc.at = "sleep" /\ ran = Kinds
    /\ \E a, b \in ADMIN_IDS :
          /\ a # b
          /\ Calls(delivered, "fail2ban") = {<<"fail2ban", a, FALSE>>, <<"fail2ban", b, TRUE>>}

(* The kinds a step of the monitor evaluates. *)
Evaluated == ran' \ (IF mpc.at = "sleep" THEN {} ELSE ran)

\* C14: whenever a due kind is evaluated and the events the check counts are
\* more than the threshold, the for loop over ADMIN_IDS is started for it,
\* whatever was evaluated or sent before.
C14_LevelTriggered ==
    [][MonitorStep =>
         \A k \in Evaluated :
             Total(k) > threshold[k] => (mpc' = At("send", k) /\ pending' = ADMIN_IDS)
      ]_vars

\* The second pass starts sending a ban-log alert, and the pass before it
\* sent one as well.
C14_Witness ==
    /\ mpc = At("send", "fail2ban") /\ pending = ADMIN_IDS
    /\ tick = 0 /\ refired

\* C15: under fair scheduling the loop body is entered again and again.
C15_LoopNeverTerminates == []<><<MonitorTick>>_vars

\* A pass has ended although no log could be read or found and the one alert
\* of the pass before reached nobody.
C15_Witness ==
    /\ mpc.at = "sleep" /\ tick = 0
    /\ ~files["fail2ban"].exists /\ files["port_scan"] = Unreadable
    /\ \A a \in ADMIN_IDS : <<"ssh", a, FALSE>> \in delivered

C17_AbsentFileNoAlertNoError ==
    [][MonitorStep =>
         /\ \A k \in Evaluated :
               /\ ~files[k].exists => mpc' # At("send", k)
               /\ mpc' = At("send", k) <=>
                     (files[k].exists /\ files[k].readable /\ Total(k) > threshold[k])
         /\ mpc'.at \in {"sleep", "send"}
         /\ mpc'.at = "sleep" => \A k \in Kinds : check_counters[k] = 0 => k \in ran'
      ]_vars

\* The first pass has found no ban log and no auth.log, has sent nothing for
\* them, and is sending the alert of the firewall-drop check.
C17_Witness ==
    /\ mpc = At("send", "port_scan") /\ tick = 1 /\ ran = Kinds
    /\ pending = ADMIN_IDS
    /\ ~files["fail2ban"].exists /\ ~files["ssh"].exists
    /\ delivered = {}

(* The lines the specification takes for events of a kind: a ban or unban,
   a failed or invalid login, a packet the firewall dropped. *)
Dropped(line) ==
    \/ \E i \in DOMAIN line : line[i] = "[UFW BLOCK]"
    \/ In("kernel", line) /\ In("DROP", line)
IsEvent(k, line) == CASE k = "fail2ban" -> In("Ban", line) \/ In("Unban", line)
                      [] k = "ssh"      -> ssh_marker(line)
                      [] OTHER          -> Dropped(line)

\* C18: every line an alert counts is an event of the alert's kind; for the
\* firewall log, a packet that was dropped.
C18_OnlyMarkerLinesCounted ==
    (scan.done /\ scan.result.fired) =>
        \A i \in DOMAIN scan.result.events : IsEvent(scan.kind, scan.result.events[i])

(* The order of the IPs of the log lines as strings. *)
IpRank(ip) == CASE ip = "1.1.1.1" -> 1 [] ip = "2.2.2.2" -> 2 [] OTHER -> 3

\* C19: the top entries of an alert are ordered by count descending, and
\* entries of equal count by IP ascending.
C19_TopEntriesTieOrder ==
    (scan.done /\ scan.result.fired) =>
        \A i, j \in DOMAIN scan.result.top :
            i < j => \/ scan.result.top[i][2] > scan.result.top[j][2]
                     \/ /\ scan.result.top[i][2] = scan.result.top[j][2]
                        /\ IpRank(scan.result.top[i][1]) < IpRank(scan.result.top[j][1])

(* The lines of the report that are about sub-check c. *)
LinesAbout(c) == {i \in DOMAIN report.lines : report.lines[i][1] = c}

\* C20: whatever the sub-checks of a report did, the report has exactly one
\* line for each of them, and the line of a sub-check that raised is the
\* placeholder.
C20_OneLinePerSubCheck ==
    report.done =>
        \A c \in DOMAIN report.outcome :
            /\ Cardinality(LinesAbout(c)) = 1
            /\ report.outcome[c] \in {"timeout", "error"} =>
                  \A i \in LinesAbout(c) : report.lines[i][2] = "unknown"

\* C21: every denial given to an identity outside the allow-list, for a
\* command or for a button, has its record in the log.
C21_EveryDenialLogged ==
    \A d \in denied : <<"unauthorized", d[1]>> \in log

\* C22: within a restart, when the stop call is over the settle delay
\* follows, whatever stop reported; the settle delay is entered from nowhere
\* else, and start is invoked only when the settle delay is over.
C22_StopSettleStartInOrder ==
    [][\A t \in Tasks :
         /\ (pc[t] = "Stopping" /\ pc'[t] # "Stopping") => pc'[t] = "Settling"
         /\ (pc[t] # "Settling" /\ pc'[t] = "Settling") => pc[t] = "Stopping"
         /\ (pc[t] # "Starting" /\ pc'[t] = "Starting") => pc[t] = "Settling"
         /\ start_result'[t] \notin {"none", start_result[t]} => pc[t] = "Starting"
      ]_vars

\* C23: the ban-log counter is always 0, the two other counters are equal
\* and 0 or 1; as long as no check has run all three are 0, so the first
\* pass runs all three checks; and a pass that ends has run the failed-login
\* check iff it has run the firewall-drop check.
C23_CounterInvariant ==
    /\ [](/\ check_counters["fail2ban"] = 0
          /\ check_counters["ssh"] = check_counters["port_scan"]
          /\ check_counters["ssh"] \in {0, 1}
          /\ ran = {} => \A k \in Kinds : check_counters[k] = 0)
    /\ [][PassEnd => (("ssh" \in ran') <=> ("port_scan" \in ran'))]_vars

\* A pass has ended that ran all three checks: the two counters of the
\* two-minute checks now stand at 1, and the next pass will skip both.
C23_Witness ==
    /\ mpc.at = "sleep" /\ ran = Kinds
    /\ check_counters = [k \in Kinds |-> IF k = "fail2ban" THEN 0 ELSE 1]

====
